---- MODULE Spec2Model ----
(***************************************************************************)
(* Refrigerant line sizing (src/script.js): the refrigerant table, the     *)
(* copper tube catalog, computeForTube, sizeLine and the form handler.     *)
(*                                                                         *)
(* A JavaScript Number is an IEEE 754 binary64 value and is modelled bit   *)
(* for bit.  A finite Number is [k |-> "num", s, m, e]: sign s (1 or -1),  *)
(* and the magnitude M * 2^e, where M is the integer whose base 2^14       *)
(* digits are m[1..4], most significant first.  M holds the 53 bit         *)
(* significand followed by three zero bits, so a normal number has         *)
(* m[1] >= 2^13; a subnormal number has e = MinE and a smaller m[1]; zero  *)
(* is M = 0 and keeps its sign.  k = "inf" is +/-Infinity and k = "nan" is *)
(* NaN.  *, /, + and - round to nearest, ties to even, overflow to         *)
(* Infinity and underflow through the subnormals to zero.                  *)
(***************************************************************************)
EXTENDS Integers, Sequences, FiniteSets

VARIABLES
    pc,         \* position of the caller: "call", "returned", "threw", or "ui"
    input,      \* the SizingInput record handed to sizeLine
    out,        \* what sizeLine returned: [results, selected]
    err,        \* message of the Error that was thrown ("" when none)
    errors,     \* #errors panel: [hidden, text]
    resultados, \* #resultados-card with #tabla-body: [hidden, rows]
    seleccion   \* #seleccion-card with #seleccion-contenido: [hidden, contenido]

vars == <<pc, input, out, err, errors, resultados, seleccion>>

----------------------------------------------------------------------------
(* JavaScript Number arithmetic *)

\* The digit base of a significand and its top bit.
B == 2 ^ 14
H == 2 ^ 13

\* Exponents of the least and the greatest finite Number: the subnormals are
\* multiples of 2^-1074 = 8 * 2^MinE, the largest double is below 2^(MaxE + 56).
MinE == -1077
MaxE == 968

ZeroM == <<0, 0, 0, 0>>

Num(s, m, e) == [k |-> "num", s |-> s, m |-> m, e |-> e]
NaN == [k |-> "nan", s |-> 1, m |-> ZeroM, e |-> 0]
Inf(s) == [k |-> "inf", s |-> s, m |-> ZeroM, e |-> 0]
Zero(s) == Num(s, ZeroM, MinE)

\* isNaN(a): a is NaN, or undefined, which ToNumber turns into NaN wherever
\* a Number is expected
IsNaN(a) == a.k \in {"nan", "undefined"}
IsInf(a) == a.k = "inf"
IsZero(a) == a.k = "num" /\ a.m = ZeroM

\* The sticky bit: x with its last bit set when bits were lost below it.
Jam(x, lost) == IF lost /\ (x % 2) = 0 THEN x + 1 ELSE x

\* m shifted right by n < 14 bits (p = 2^n, q = 2^(14 - n)), sticky.
ShiftRBits(m, p, q) ==
    <<m[1] \div p,
      ((m[1] % p) * q) + (m[2] \div p),
      ((m[2] % p) * q) + (m[3] \div p),
      Jam(((m[3] % p) * q) + (m[4] \div p), (m[4] % p) # 0)>>

\* m shifted right by n bits, sticky.
RECURSIVE ShiftRJam(_, _)
ShiftRJam(m, n) ==
    IF n = 0 THEN m
    ELSE IF n >= 70 THEN <<0, 0, 0, IF m = ZeroM THEN 0 ELSE 1>>
    ELSE IF n >= 14 THEN ShiftRJam(<<0, m[1], m[2], Jam(m[3], m[4] # 0)>>, n - 14)
    ELSE ShiftRBits(m, 2 ^ n, 2 ^ (14 - n))

\* Leading zero bits of a digit 0 < x < 2^14.
RECURSIVE Lz(_)
Lz(x) == IF x >= H THEN 0 ELSE 1 + Lz(2 * x)

\* m shifted left by fewer than 14 bits (p the power of two), no bit lost.
ShiftLBits(m, p) ==
    <<(m[1] * p) + ((m[2] * p) \div B),
      ((m[2] * p) % B) + ((m[3] * p) \div B),
      ((m[3] * p) % B) + ((m[4] * p) \div B),
      (m[4] * p) % B>>

\* The same magnitude m * 2^e with the top bit of m set (m # 0).
RECURSIVE NormLeft(_, _)
NormLeft(m, e) ==
    IF m[1] >= H THEN [m |-> m, e |-> e]
    ELSE IF m[1] = 0 THEN NormLeft(<<m[2], m[3], m[4], 0>>, e - 14)
    ELSE [m |-> ShiftLBits(m, 2 ^ Lz(m[1])), e |-> e - Lz(m[1])]

\* A rounded significand as a Number: overflow gives Infinity.
Pack(s, m, e) ==
    IF m = ZeroM THEN Zero(s) ELSE IF e > MaxE THEN Inf(s) ELSE Num(s, m, e)

\* The digits a b c d after a round up, with the carry propagated.
Carry(s, a, b, c, d, e) ==
    IF d < B THEN Pack(s, <<a, b, c, d>>, e)
    ELSE IF c + 1 < B THEN Pack(s, <<a, b, c + 1, 0>>, e)
    ELSE IF b + 1 < B THEN Pack(s, <<a, b + 1, 0, 0>>, e)
    ELSE IF a + 1 < B THEN Pack(s, <<a + 1, 0, 0, 0>>, e)
    ELSE Pack(s, <<H, 0, 0, 0>>, e + 1)

\* Round to nearest, ties to even, on the three bits g below the significand.
RoundG(s, m, e, g) ==
    IF g > 4 \/ (g = 4 /\ ((m[4] \div 8) % 2) = 1)
    THEN Carry(s, m[1], m[2], m[3], m[4] - g + 8, e)
    ELSE Pack(s, <<m[1], m[2], m[3], m[4] - g>>, e)

RoundBits(s, m, e) == RoundG(s, m, e, m[4] % 8)

\* Rounding of m * 2^e (top bit of m set, last bit sticky); below the normal
\* range the significand is first shifted down to the subnormal exponent.
RoundPack(s, m, e) ==
    IF e < MinE THEN RoundBits(s, ShiftRJam(m, MinE - e), MinE)
    ELSE RoundBits(s, m, e)

NormRoundK(s, x) == RoundPack(s, x.m, x.e)
NormRound(s, m, e) == IF m = ZeroM THEN Zero(s) ELSE NormRoundK(s, NormLeft(m, e))

\* The base 2^14 digits, least significant first, of the number whose column
\* sums are cols (carries propagated; the last digit is the final carry).
RECURSIVE Limbs(_, _, _)
Limbs(cols, k, c) ==
    IF k > Len(cols) THEN <<c>>
    ELSE <<(cols[k] + c) % B>> \o Limbs(cols, k + 1, (cols[k] + c) \div B)

\* Column sums of the product of two four digit significands.
MulCols(a, b) ==
    <<a[4] * b[4],
      a[3] * b[4] + a[4] * b[3],
      a[2] * b[4] + a[3] * b[3] + a[4] * b[2],
      a[1] * b[4] + a[2] * b[3] + a[3] * b[2] + a[4] * b[1],
      a[1] * b[3] + a[2] * b[2] + a[3] * b[1],
      a[1] * b[2] + a[2] * b[1],
      a[1] * b[1]>>

\* The top 56 bits of the 112 bit product p, the rest sticky.
MulTop(s, p, e) ==
    IF p[8] >= H
    THEN RoundPack(s, <<p[8], p[7], p[6],
                        Jam(p[5], p[4] # 0 \/ p[3] # 0 \/ p[2] # 0 \/ p[1] # 0)>>,
                   e + 56)
    ELSE RoundPack(s, <<(p[8] * 2) + (p[7] \div H),
                        ((p[7] % H) * 2) + (p[6] \div H),
                        ((p[6] % H) * 2) + (p[5] \div H),
                        Jam(((p[5] % H) * 2) + (p[4] \div H),
                            (p[4] % H) # 0 \/ p[3] # 0 \/ p[2] # 0 \/ p[1] # 0)>>,
                   e + 55)

MulNorm(s, x, y) == MulTop(s, Limbs(MulCols(x.m, y.m), 1, 0), x.e + y.e)

\* a * b
FMul(a, b) ==
    IF IsNaN(a) \/ IsNaN(b) THEN NaN
    ELSE IF IsInf(a) \/ IsInf(b)
         THEN IF IsZero(a) \/ IsZero(b) THEN NaN ELSE Inf(a.s * b.s)
    ELSE IF IsZero(a) \/ IsZero(b) THEN Zero(a.s * b.s)
    ELSE MulNorm(a.s * b.s, NormLeft(a.m, a.e), NormLeft(b.m, b.e))

\* x < y for two significands
Lt4(x, y) ==
    \/ x[1] < y[1]
    \/ x[1] = y[1] /\ ( \/ x[2] < y[2]
                        \/ x[2] = y[2] /\ ( \/ x[3] < y[3]
                                            \/ x[3] = y[3] /\ x[4] < y[4] ) )

\* x - y for two significands, x >= y
Sub4K(l) == <<l[4], l[3], l[2], l[1]>>
Sub4(x, y) == Sub4K(Limbs(<<x[4] - y[4], x[3] - y[3], x[2] - y[2], x[1] - y[1]>>, 1, 0))

\* Long division: the estimate of the next quotient digit of R / D, ...
QHat(R, D) ==
    IF ((R[1] * B + R[2]) \div D[1]) > B - 1 THEN B - 1 ELSE (R[1] * B + R[2]) \div D[1]

\* ... the remainder R * 2^14 - q * D it leaves, ...
Rem(R, D, q) ==
    Limbs(<<0 - q * D[4], R[4] - q * D[3], R[3] - q * D[2], R[2] - q * D[1], R[1]>>, 1, 0)

\* ... and the digit itself: the estimate lowered until the remainder is >= 0.
RECURSIVE Digit(_, _, _)
DigitK(R, D, q, t) ==
    IF t[6] < 0 THEN Digit(R, D, q - 1)
    ELSE [q |-> q, r |-> <<t[4], t[3], t[2], t[1]>>]
Digit(R, D, q) == DigitK(R, D, q, Rem(R, D, q))

\* n more quotient digits of R / D (R < D), and the last remainder.
RECURSIVE Quot(_, _, _, _)
QuotK(d, D, n, acc) == Quot(d.r, D, n - 1, Append(acc, d.q))
Quot(R, D, n, acc) ==
    IF n = 0 THEN [q |-> acc, r |-> R]
    ELSE QuotK(Digit(R, D, QHat(R, D)), D, n, acc)

\* The quotient of two normalised significands x < y ...
DivLo(s, Q, e) ==
    RoundPack(s, <<Q.q[1], Q.q[2], Q.q[3], Jam(Q.q[4], Q.r # ZeroM)>>, e)

\* ... and x >= y, where the quotient has a leading one before the digits.
DivHi(s, Q, e) ==
    RoundPack(s, <<H + (Q.q[1] \div 2),
                   ((Q.q[1] % 2) * H) + (Q.q[2] \div 2),
                   ((Q.q[2] % 2) * H) + (Q.q[3] \div 2),
                   Jam(((Q.q[3] % 2) * H) + (Q.q[4] \div 2),
                       (Q.q[4] % 2) = 1 \/ Q.r # ZeroM)>>, e)

DivNorm(s, x, y) ==
    IF Lt4(x.m, y.m)
    THEN DivLo(s, Quot(x.m, y.m, 4, <<>>), x.e - y.e - 56)
    ELSE DivHi(s, Quot(Sub4(x.m, y.m), y.m, 4, <<>>), x.e - y.e - 55)

\* a / b
FDiv(a, b) ==
    IF IsNaN(a) \/ IsNaN(b) THEN NaN
    ELSE IF IsInf(a) THEN (IF IsInf(b) THEN NaN ELSE Inf(a.s * b.s))
    ELSE IF IsInf(b) THEN Zero(a.s * b.s)
    ELSE IF IsZero(b) THEN (IF IsZero(a) THEN NaN ELSE Inf(a.s * b.s))
    ELSE IF IsZero(a) THEN Zero(a.s * b.s)
    ELSE DivNorm(a.s * b.s, NormLeft(a.m, a.e), NormLeft(b.m, b.e))

\* |a| < |b| for two non-zero, non-NaN values
MagLt(a, b) ==
    IF IsInf(a) THEN FALSE
    ELSE IF IsInf(b) THEN TRUE
    ELSE a.e < b.e \/ (a.e = b.e /\ Lt4(a.m, b.m))

\* The sum l of two aligned significands, with its carry digit l[5].
AddTop(s, l, e) ==
    IF l[5] = 0 THEN NormRound(s, <<l[4], l[3], l[2], l[1]>>, e)
    ELSE RoundPack(s, <<H + (l[4] \div 2),
                        ((l[4] % 2) * H) + (l[3] \div 2),
                        ((l[3] % 2) * H) + (l[2] \div 2),
                        Jam(((l[2] % 2) * H) + (l[1] \div 2), (l[1] % 2) = 1)>>, e + 1)

AddAligned(s, x, y, e) ==
    AddTop(s, Limbs(<<x[4] + y[4], x[3] + y[3], x[2] + y[2], x[1] + y[1]>>, 1, 0), e)

\* |a| + |b|
AddMag(s, a, b) ==
    IF a.e >= b.e THEN AddAligned(s, a.m, ShiftRJam(b.m, a.e - b.e), a.e)
    ELSE AddAligned(s, b.m, ShiftRJam(a.m, b.e - a.e), b.e)

\* |a| - |b| for |a| > |b|
SubMag(s, a, b) == NormRound(s, Sub4(a.m, ShiftRJam(b.m, a.e - b.e)), a.e)

\* a + b
FAdd(a, b) ==
    IF IsNaN(a) \/ IsNaN(b) THEN NaN
    ELSE IF IsInf(a) THEN (IF IsInf(b) /\ b.s # a.s THEN NaN ELSE a)
    ELSE IF IsInf(b) THEN b
    ELSE IF IsZero(a) THEN (IF IsZero(b) /\ a.s # b.s THEN Zero(1) ELSE b)
    ELSE IF IsZero(b) THEN a
    ELSE IF a.s = b.s THEN AddMag(a.s, a, b)
    ELSE IF MagLt(a, b) THEN SubMag(b.s, b, a)
    ELSE IF MagLt(b, a) THEN SubMag(a.s, a, b)
    ELSE Zero(1)

FNeg(a) == IF IsNaN(a) THEN NaN ELSE [a EXCEPT !.s = -a.s]

\* a - b
FSub(a, b) == FAdd(a, FNeg(b))

\* Math.abs(a)
FAbs(a) == IF IsNaN(a) THEN NaN ELSE [a EXCEPT !.s = 1]

\* a < b, a <= b, a > b, a >= b: false as soon as an operand is NaN
FLt(a, b) ==
    /\ ~IsNaN(a)
    /\ ~IsNaN(b)
    /\ ~(IsZero(a) /\ IsZero(b))
    /\ IF a.s # b.s THEN a.s < b.s
       ELSE IF a.s = 1 THEN MagLt(a, b) ELSE MagLt(b, a)

FGt(a, b) == FLt(b, a)
FLe(a, b) == ~IsNaN(a) /\ ~IsNaN(b) /\ ~FLt(b, a)
FGe(a, b) == FLe(b, a)

\* Math.max(a, b)
FMax(a, b) ==
    IF IsNaN(a) \/ IsNaN(b) THEN NaN
    ELSE IF IsZero(a) /\ IsZero(b) THEN (IF a.s = 1 THEN a ELSE b)
    ELSE IF FLt(a, b) THEN b ELSE a

\* The Number of an integer |n| < 2^31 (exact).
FromNatK(s, x) == Num(s, x.m, x.e)
FromNat(s, n) ==
    IF n = 0 THEN Zero(s)
    ELSE FromNatK(s, NormLeft(<<0, n \div (B * B), (n \div B) % B, n % B>>, 0))
FromInt(n) == IF n < 0 THEN FromNat(-1, -n) ELSE FromNat(1, n)

\* The Number a decimal literal m * 10^e denotes for |e| <= 9, e.g. 32.174 is
\* Dec(32174, -3): the integers m and 10^|e| are exact, so one rounded * or /
\* gives the double nearest to the literal.
Dec(m, e) ==
    IF e >= 0 THEN FMul(FromInt(m), FromInt(10 ^ e))
    ELSE FDiv(FromInt(m), FromInt(10 ^ (-e)))

\* a * 2^k for a finite non-zero a that stays in the normal range (exact)
Scale2(a, k) == [a EXCEPT !.e = @ + k]

\* Math.PI = 3.141592653589793 = 7074237752028440 * 2^-51
PI == Num(1, <<12867, 15786, 2181, 10432>>, -54)

\* The numeric literals of the source.  The parser turns a decimal literal
\* into the nearest double; each constant below is that double, written out
\* in the representation above, with the literal beside it.
K0 == Zero(1)  \* 0
K1 == Num(1, <<8192, 0, 0, 0>>, -55)  \* 1
K2 == Num(1, <<8192, 0, 0, 0>>, -54)  \* 2
K4 == Num(1, <<8192, 0, 0, 0>>, -53)  \* 4
K8 == Num(1, <<8192, 0, 0, 0>>, -52)  \* 8
K12 == Num(1, <<12288, 0, 0, 0>>, -52)  \* 12
K60 == Num(1, <<15360, 0, 0, 0>>, -50)  \* 60
K64 == Num(1, <<8192, 0, 0, 0>>, -49)  \* 64
K144 == Num(1, <<9216, 0, 0, 0>>, -48)  \* 144
K300 == Num(1, <<9600, 0, 0, 0>>, -47)  \* 300
K2300 == Num(1, <<9200, 0, 0, 0>>, -44)  \* 2300
K3600 == Num(1, <<14400, 0, 0, 0>>, -44)  \* 3600
K0_01 == Num(1, <<10485, 12451, 13762, 9176>>, -62)  \* 0.01
K0_5 == Num(1, <<8192, 0, 0, 0>>, -56)  \* 0.5
K0_3048 == Num(1, <<9987, 11245, 16016, 16360>>, -57)  \* 0.3048
K0_3164 == Num(1, <<10367, 13028, 9122, 10016>>, -57)  \* 0.3164
K25_4 == Num(1, <<13004, 13107, 3276, 13104>>, -51)  \* 25.4
K1e_6 == Num(1, <<8589, 15312, 5821, 11368>>, -75)  \* 1e-06

----------------------------------------------------------------------------
(* Datos de refrigerantes *)

GC == Num(1, <<8236, 8912, 14680, 1048>>, -50)  \* 32.174

\* The high word of a finite Number, sign aside: the 11 bits of the biased
\* exponent followed by the high 20 bits of the fraction.
HighWord(a) ==
    IF a.m[1] >= H
    THEN ((a.e + 1078) * 1048576) + ((a.m[1] - H) * 128) + (a.m[2] \div 128)
    ELSE (a.m[1] * 128) + (a.m[2] \div 128)

\* The Number with sign s, high word hw and a low word of zero.
FromHighWord(s, hw) ==
    IF hw < 1048576
    THEN Num(s, <<hw \div 128, (hw % 128) * 128, 0, 0>>, MinE)
    ELSE Num(s, <<H + ((hw % 1048576) \div 128), (hw % 128) * 128, 0, 0>>,
             (hw \div 1048576) - 1078)

\* a with the low word, the low 32 bits of its fraction, set to zero.
ClearLowWord(a) == [a EXCEPT !.m = <<@[1], (@[2] \div 128) * 128, 0, 0>>]

\* The constants of Math.pow, each with the two words of its double:
\*   y     = -0.25, the exponent of frictionFactor (0xBFD00000, 0x00000000)
\*   two53 = 9007199254740992.0 (0x43400000, 0x00000000)
\*   bp    = bp[1] = 1.5 (0x3FF80000, 0x00000000)
\*   three = 3.0 (0x40080000, 0x00000000)
\*   dp_h  = dp_h[1] = 5.84962487220764160156e-01 (0x3FE2B803, 0x40000000)
\*   dp_l  = dp_l[1] = 1.35003920212974897128e-08 (0x3E4CFDEB, 0x43CFD006)
\*   L[1]  = L1 = 5.99999999999994648725e-01 (0x3FE33333, 0x33333303)
\*   L[2]  = L2 = 4.28571428578550184252e-01 (0x3FDB6DB6, 0xDB6FABFF)
\*   L[3]  = L3 = 3.33333329818377432918e-01 (0x3FD55555, 0x518F264D)
\*   L[4]  = L4 = 2.72728123808534006489e-01 (0x3FD17460, 0xA91D4101)
\*   L[5]  = L5 = 2.30660745775561754067e-01 (0x3FCD864A, 0x93C9DB65)
\*   L[6]  = L6 = 2.06975017800338417784e-01 (0x3FCA7E28, 0x4A454EEF)
\*   P[1]  = P1 = 1.66666666666666019037e-01 (0x3FC55555, 0x5555553E)
\*   P[2]  = P2 = -2.77777777770155933842e-03 (0xBF66C16C, 0x16BEBD93)
\*   P[3]  = P3 = 6.61375632143793436117e-05 (0x3F11566A, 0xAF25DE2C)
\*   P[4]  = P4 = -1.65339022054652515390e-06 (0xBEBBBD41, 0xC5D26BF1)
\*   P[5]  = P5 = 4.13813679705723846039e-08 (0x3E663769, 0x72BEA4D0)
\*   lg2   = 6.93147180559945286227e-01 (0x3FE62E42, 0xFEFA39EF)
\*   lg2_h = 6.93147182464599609375e-01 (0x3FE62E43, 0x00000000)
\*   lg2_l = -1.90465429995776804525e-09 (0xBE205C61, 0x0CA86C39)
\*   cp    = 2/(3 ln 2) = 9.61796693925975554329e-01 (0x3FEEC709, 0xDC3A03FD)
\*   cp_h  = 9.61796700954437255859e-01 (0x3FEEC709, 0xE0000000)
\*   cp_l  = -7.02846165095275826516e-09 (0xBE3E2FE0, 0x145B01F5)
Pow_c ==
    [y |-> Num(-1, <<8192, 0, 0, 0>>, -57),
     two53 |-> Num(1, <<8192, 0, 0, 0>>, -2),
     bp |-> Num(1, <<12288, 0, 0, 0>>, -55),
     three |-> Num(1, <<12288, 0, 0, 0>>, -54),
     dp_h |-> Num(1, <<9584, 416, 0, 0>>, -56),
     dp_l |-> Num(1, <<14843, 13729, 14842, 48>>, -82),
     L |-> <<Num(1, <<9830, 6553, 9830, 6168>>, -56),
             Num(1, <<14043, 7021, 11765, 8184>>, -57),
             Num(1, <<10922, 10920, 12772, 12904>>, -57),
             Num(1, <<8936, 12372, 9128, 2056>>, -57),
             Num(1, <<15116, 9545, 14651, 6952>>, -58),
             Num(1, <<13564, 5157, 2217, 14200>>, -58)>>,
     P |-> <<Num(1, <<10922, 10922, 10922, 10736>>, -58),
             Num(-1, <<11650, 13835, 6103, 11416>>, -64),
             Num(1, <<8876, 13655, 9403, 12640>>, -69),
             Num(-1, <<14202, 8418, 14925, 8072>>, -75),
             Num(1, <<11374, 13497, 6100, 9856>>, -80)>>,
     lg2 |-> Num(1, <<11356, 8575, 8007, 3960>>, -56),
     lg2_h |-> Num(1, <<11356, 8576, 0, 0>>, -56),
     lg2_l |-> Num(-1, <<8376, 12422, 5389, 8648>>, -84),
     cp |-> Num(1, <<15758, 1262, 1856, 8168>>, -56),
     cp_h |-> Num(1, <<15758, 1264, 0, 0>>, -56),
     cp_l |-> Num(-1, <<15455, 12298, 2912, 4008>>, -83)]

\* Math.pow(x, y) for a finite x > 0 other than 1 and |y| < 2^31.  The
\* language leaves the precision of Math.pow to the implementation; this is
\* the routine of V8, the engine of node, statement by statement, so that the
\* result is the engine's to the last bit.  log2(x) is computed as t1 + t2
\* from x = 2^n * ax with ax in [sqrt(3)/2, sqrt(3)) and the series of log(ax)
\* in ss = (ax - bp)/(ax + bp), bp = 1 or 1.5; y * log2(x) is split into the
\* integer n and the rest p_h + p_l, and 2^rest comes from a rational
\* approximation of exp.  The definitions follow the routine from its last
\* statements to its first; each takes the variables that are live at its
\* point of the routine and is named after the variable assigned there.  No
\* value of the routine is NaN for a finite x > 0, and a NaN assigned would
\* make the result NaN; each definition looks at the values just assigned
\* before it goes on, which settles them in program order.  The result keeps
\* within the normal range for y = -0.25 (|y * log2(x)| < 270), which is the
\* case of the overflow and underflow tests of the routine that never applies.

\* z = one - (r - z), with r = (z*t1)/((t1 - two) - (w + z*w));
\* and the result scaled by 2^n
Pow_r(n, z, w, t1) ==
    IF IsNaN(t1) THEN NaN
    ELSE Scale2(FSub(K1, FSub(FDiv(FMul(z, t1),
                                   FSub(FSub(t1, K2), FAdd(w, FMul(z, w)))),
                              z)),
                n)

\* t1 = z - t*(P1 + t*(P2 + t*(P3 + t*(P4 + t*P5))))
Pow_exp_t1(n, z, w, t) ==
    IF IsNaN(w) \/ IsNaN(t) THEN NaN
    ELSE Pow_r(n, z, w,
             FSub(z, FMul(t,
                 FAdd(Pow_c.P[1], FMul(t,
                 FAdd(Pow_c.P[2], FMul(t,
                 FAdd(Pow_c.P[3], FMul(t,
                 FAdd(Pow_c.P[4], FMul(t, Pow_c.P[5])))))))))))

\* w = v - (z - u); t = z*z
Pow_exp_w(n, u, v, z) ==
    IF IsNaN(z) THEN NaN
    ELSE Pow_exp_t1(n, z, FSub(v, FSub(z, u)), FMul(z, z))

\* z = u + v
Pow_exp_z(n, u, v) ==
    IF IsNaN(u) \/ IsNaN(v) THEN NaN
    ELSE Pow_exp_w(n, u, v, FAdd(u, v))

\* u = t*lg2_h; v = (p_l - (t - p_h))*lg2 + t*lg2_l
Pow_exp_uv(n, p_l, p_h, t) ==
    IF IsNaN(t) THEN NaN
    ELSE Pow_exp_z(n,
             FMul(t, Pow_c.lg2_h),
             FAdd(FMul(FSub(p_l, FSub(t, p_h)), Pow_c.lg2), FMul(t, Pow_c.lg2_l)))

\* t = p_l + p_h, with the low word cleared
Pow_exp_t(n, p_l, p_h) ==
    IF IsNaN(p_h) THEN NaN
    ELSE Pow_exp_uv(n, p_l, p_h, ClearLowWord(FAdd(p_l, p_h)))

\* i = the high word of |z|; when |z| > 0.5: n = [z + 0.5], and p_h -= t with
\* t the integer part.  ni is the n of the routine before it is shifted, kn
\* its k.
Pow_n(p_l, p_h, z) ==
    LET i == HighWord(z)
        far == i > 1071644672
        ni == i + (2 ^ (20 - ((i \div 1048576) - 1022)))
        kn == (ni \div 1048576) - 1023
    IN  Pow_exp_t(
            IF far
            THEN z.s * (((ni % 1048576) + 1048576) \div (2 ^ (20 - kn)))
            ELSE 0,
            p_l,
            IF far
            THEN FSub(p_h, FromHighWord(z.s, ni - (ni % (2 ^ (20 - kn)))))
            ELSE p_h)

\* z = p_l + p_h
Pow_z(p_l, p_h) ==
    IF IsNaN(p_l) \/ IsNaN(p_h) THEN NaN
    ELSE Pow_n(p_l, p_h, FAdd(p_l, p_h))

\* t2 = z_l - (((t1 - t) - dp_h) - z_h); y1 = y with the low word cleared;
\* p_l = (y - y1)*t1 + y*t2; p_h = y1*t1
Pow_y_log2(y, t, dp_h, z_h, z_l, t1) ==
    IF IsNaN(t1) THEN NaN
    ELSE Pow_z(FAdd(FMul(FSub(y, ClearLowWord(y)), t1),
                    FMul(y, FSub(z_l, FSub(FSub(FSub(t1, t), dp_h), z_h)))),
               FMul(ClearLowWord(y), t1))

\* t1 = ((z_h + z_l) + dp_h) + t, with the low word cleared
Pow_log_t1(y, t, dp_h, z_h, z_l) ==
    IF IsNaN(z_h) \/ IsNaN(z_l) THEN NaN
    ELSE Pow_y_log2(y, t, dp_h, z_h, z_l,
             ClearLowWord(FAdd(FAdd(FAdd(z_h, z_l), dp_h), t)))

\* p_l = v - (p_h - u); z_h = cp_h*p_h; z_l = cp_l*p_h + p_l*cp + dp_l
Pow_log_z(y, t, dp_h, dp_l, u, v, p_h) ==
    IF IsNaN(p_h) THEN NaN
    ELSE Pow_log_t1(y, t, dp_h,
             FMul(Pow_c.cp_h, p_h),
             FAdd(FAdd(FMul(Pow_c.cp_l, p_h), FMul(FSub(v, FSub(p_h, u)), Pow_c.cp)),
                  dp_l))

\* p_h = u + v, with the low word cleared
Pow_log_p(y, t, dp_h, dp_l, u, v) ==
    IF IsNaN(u) \/ IsNaN(v) THEN NaN
    ELSE Pow_log_z(y, t, dp_h, dp_l, u, v, ClearLowWord(FAdd(u, v)))

\* t_l = r - ((t_h - 3.0) - s2); u = s_h*t_h; v = s_l*t_h + t_l*ss
Pow_log_uv(y, t, dp_h, dp_l, ss, s_h, s_l, r, s2, t_h) ==
    IF IsNaN(s2) \/ IsNaN(t_h) THEN NaN
    ELSE Pow_log_p(y, t, dp_h, dp_l,
             FMul(s_h, t_h),
             FAdd(FMul(s_l, t_h),
                  FMul(FSub(r, FSub(FSub(t_h, Pow_c.three), s2)), ss)))

\* s2 = s_h*s_h; t_h = 3.0 + s2 + r, with the low word cleared
Pow_log_th(y, t, dp_h, dp_l, ss, s_h, s_l, r) ==
    IF IsNaN(r) THEN NaN
    ELSE Pow_log_uv(y, t, dp_h, dp_l, ss, s_h, s_l, r,
             FMul(s_h, s_h),
             ClearLowWord(FAdd(FAdd(Pow_c.three, FMul(s_h, s_h)), r)))

\* r = s2*s2*(L1 + s2*(L2 + s2*(L3 + s2*(L4 + s2*(L5 + s2*L6)))));
\* r += s_l*(s_h + ss)
Pow_log_r(y, t, dp_h, dp_l, ss, s_h, s_l, s2) ==
    IF IsNaN(s_l) \/ IsNaN(s2) THEN NaN
    ELSE Pow_log_th(y, t, dp_h, dp_l, ss, s_h, s_l,
             FAdd(FMul(FMul(s2, s2),
                       FAdd(Pow_c.L[1], FMul(s2,
                       FAdd(Pow_c.L[2], FMul(s2,
                       FAdd(Pow_c.L[3], FMul(s2,
                       FAdd(Pow_c.L[4], FMul(s2,
                       FAdd(Pow_c.L[5], FMul(s2, Pow_c.L[6]))))))))))),
                  FMul(s_l, FAdd(s_h, ss))))

\* s_h = ss with the low word cleared; s_l = v*((u - s_h*t_h) - s_h*t_l);
\* s2 = ss*ss
Pow_log_s(y, t, dp_h, dp_l, t_h, t_l, u, v, ss) ==
    IF IsNaN(ss) THEN NaN
    ELSE Pow_log_r(y, t, dp_h, dp_l, ss,
             ClearLowWord(ss),
             FMul(v, FSub(FSub(u, FMul(ClearLowWord(ss), t_h)),
                          FMul(ClearLowWord(ss), t_l))),
             FMul(ss, ss))

\* ss = u*v
Pow_log_ss(y, t, dp_h, dp_l, t_h, t_l, u, v) ==
    IF IsNaN(t_l) \/ IsNaN(u) \/ IsNaN(v) THEN NaN
    ELSE Pow_log_s(y, t, dp_h, dp_l, t_h, t_l, u, v, FMul(u, v))

\* t_l = ax - (t_h - bp[k]); u = ax - bp[k]; v = one/(ax + bp[k])
Pow_log_u(y, t, ax, bp, dp_h, dp_l, t_h) ==
    Pow_log_ss(y, t, dp_h, dp_l, t_h,
        FSub(ax, FSub(t_h, bp)),
        FSub(ax, bp),
        FDiv(K1, FAdd(ax, bp)))

\* From the high word hx of ax: n, the exponent, with t = (double)n; the
\* interval k of the fraction j (|ax| < sqrt(3/2), < sqrt(3), or above, where
\* n is one more: up); ax with the exponent of 1 (or 1/2) in the high word ix;
\* and t_h, whose high word is ((ix >> 1) | 0x20000000) + 0x00080000 + (k << 18).
Pow_log(ax, n, y) ==
    LET hx == HighWord(ax)
        j == hx % 1048576
        k == IF j <= 235662 THEN 0 ELSE IF j < 767610 THEN 1 ELSE 0
        up == IF j >= 767610 THEN 1 ELSE 0
        ix == (j + 1072693248) - (up * 1048576)
    IN  Pow_log_u(y,
            FromInt(n + ((hx \div 1048576) - 1023) + up),
            [ax EXCEPT !.e = (ix \div 1048576) - 1078],
            IF k = 0 THEN K1 ELSE Pow_c.bp,
            IF k = 0 THEN K0 ELSE Pow_c.dp_h,
            IF k = 0 THEN K0 ELSE Pow_c.dp_l,
            FromHighWord(1, (ix \div 2) + 536870912 + 524288 + (k * 262144)))

\* A subnormal x is scaled first: ax *= two53; n -= 53
Pow_finite(x, y) ==
    IF x.m[1] < H
    THEN Pow_log(FMul(x, Pow_c.two53), -53, y)
    ELSE Pow_log(x, 0, y)

\* Math.pow(a, -0.25): the special values first, then the routine above
FPowNegQuarter(a) ==
    IF IsNaN(a) THEN NaN
    ELSE IF IsZero(a) THEN Inf(1)
    ELSE IF IsInf(a) THEN Zero(1)
    ELSE IF a.s < 0 THEN NaN
    ELSE IF a = K1 THEN K1
    ELSE Pow_finite(a, Pow_c.y)

\* The own properties of the REFRIGERANTS object literal.
OwnCodes == {"R134a", "R22", "R410A", "R12"}

\* Property names every object literal inherits from Object.prototype:
\* REFRIGERANTS[code] finds them on the prototype chain.
InheritedCodes ==
    {"__defineGetter__", "__defineSetter__", "__lookupGetter__", "__lookupSetter__",
     "__proto__", "constructor", "hasOwnProperty", "isPrototypeOf",
     "propertyIsEnumerable", "toLocaleString", "toString", "valueOf"}

\* What the read of a property that is not there yields.
Undefined == [k |-> "undefined", s |-> 1, m |-> ZeroM, e |-> 0]

Refrigerant(nombre, rhoV, rhoL, mu, efecto) ==
    [nombre |-> nombre, rho_vapor_lbft3 |-> rhoV, rho_liquido_lbft3 |-> rhoL,
     mu_vapor_lbfts |-> mu, efecto_frigorifico_btulb |-> efecto]

REFRIGERANTS_R134a ==
    Refrigerant("R134a",
                Num(1, <<9830, 6553, 9830, 6552>>, -57),       \* 0.3
                Num(1, <<9600, 0, 0, 0>>, -49),                \* 75.0
                Num(1, <<13421, 12661, 9096, 6504>>, -71),     \* 2.5e-5
                Num(1, <<8960, 0, 0, 0>>, -49))                \* 70.0
REFRIGERANTS_R22 ==
    Refrigerant("R22",
                Num(1, <<11468, 13107, 3276, 13104>>, -57),    \* 0.35
                Num(1, <<8448, 0, 0, 0>>, -49),                \* 66.0
                Num(1, <<13421, 12661, 9096, 6504>>, -71),     \* 2.5e-5
                Num(1, <<10880, 0, 0, 0>>, -49))               \* 85.0
REFRIGERANTS_R410A ==
    Refrigerant("R410A",
                Num(1, <<13107, 3276, 13107, 3280>>, -57),     \* 0.4
                Num(1, <<8192, 0, 0, 0>>, -49),                \* 64.0
                Num(1, <<12348, 507, 8368, 11224>>, -71),      \* 2.3e-5
                Num(1, <<9600, 0, 0, 0>>, -49))                \* 75.0
REFRIGERANTS_R12 ==
    Refrigerant("R12",
                Num(1, <<9175, 655, 5898, 3936>>, -57),        \* 0.28
                Num(1, <<10240, 0, 0, 0>>, -49),               \* 80.0
                Num(1, <<13958, 10546, 9460, 4136>>, -71),     \* 2.6e-5
                Num(1, <<8320, 0, 0, 0>>, -49))                \* 65.0

\* What a name inherited from Object.prototype yields: an object (a function,
\* or Object.prototype itself) that has none of the table's fields.
REFRIGERANTS_inherited ==
    Refrigerant(Undefined, Undefined, Undefined, Undefined, Undefined)

\* REFRIGERANTS[code]: found is the truthiness of the value read.
REFRIGERANTS(code) ==
    CASE code = "R134a" -> [found |-> TRUE, ref |-> REFRIGERANTS_R134a]
      [] code = "R22" -> [found |-> TRUE, ref |-> REFRIGERANTS_R22]
      [] code = "R410A" -> [found |-> TRUE, ref |-> REFRIGERANTS_R410A]
      [] code = "R12" -> [found |-> TRUE, ref |-> REFRIGERANTS_R12]
      [] code \in InheritedCodes -> [found |-> TRUE, ref |-> REFRIGERANTS_inherited]
      [] OTHER -> [found |-> FALSE, ref |-> REFRIGERANTS_inherited]

----------------------------------------------------------------------------
(* Datos de tuberias de cobre *)

mmToIn(mm) == FDiv(mm, K25_4)

\* nominal, diametro exterior (mm), espesor de pared (mm): the doubles of
\* the literals beside each row
RAW_TUBES == <<
    <<"1/4", Num(1, <<13004, 13107, 3276, 13104>>, -53), Num(1, <<13107, 3276, 13107, 3280>>, -56)>>,  \* 6.35, 0.8
    <<"3/8", Num(1, <<9748, 7864, 5242, 14416>>, -52), Num(1, <<13107, 3276, 13107, 3280>>, -56)>>,  \* 9.52, 0.8
    <<"1/2", Num(1, <<13004, 13107, 3276, 13104>>, -52), Num(1, <<13107, 3276, 13107, 3280>>, -56)>>,  \* 12.7, 0.8
    <<"5/8", Num(1, <<16250, 14417, 15073, 4584>>, -52), Num(1, <<13107, 3276, 13107, 3280>>, -56)>>,  \* 15.87, 0.8
    <<"5/8", Num(1, <<16250, 14417, 15073, 4584>>, -52), Num(1, <<8192, 0, 0, 0>>, -55)>>,  \* 15.87, 1.0
    <<"3/4", Num(1, <<9758, 11796, 7864, 5240>>, -51), Num(1, <<8192, 0, 0, 0>>, -55)>>,  \* 19.06, 1.0
    <<"7/8", Num(1, <<11376, 10485, 12451, 13760>>, -51), Num(1, <<8192, 0, 0, 0>>, -55)>>,  \* 22.22, 1.0
    <<"7/8", Num(1, <<11376, 10485, 12451, 13760>>, -51), Num(1, <<9338, 14417, 15073, 4584>>, -55)>>,  \* 22.22, 1.14
    <<"1", Num(1, <<13004, 13107, 3276, 13104>>, -51), Num(1, <<8192, 0, 0, 0>>, -55)>>,  \* 25.4, 1.0
    <<"1 1/8", Num(1, <<14627, 13762, 9175, 656>>, -51), Num(1, <<8192, 0, 0, 0>>, -55)>>,  \* 28.57, 1.0
    <<"1 1/8", Num(1, <<14627, 13762, 9175, 656>>, -51), Num(1, <<10240, 0, 0, 0>>, -55)>>,  \* 28.57, 1.25
    <<"1 3/8", Num(1, <<8939, 8519, 11141, 1968>>, -50), Num(1, <<10240, 0, 0, 0>>, -55)>>,  \* 34.92, 1.25
    <<"1 3/8", Num(1, <<8939, 8519, 11141, 1968>>, -50), Num(1, <<11468, 13107, 3276, 13104>>, -55)>>,  \* 34.92, 1.4
    <<"1 5/8", Num(1, <<10565, 1966, 1310, 11800>>, -50), Num(1, <<10240, 0, 0, 0>>, -55)>>,  \* 41.27, 1.25
    <<"1 5/8", Num(1, <<10565, 1966, 1310, 11800>>, -50), Num(1, <<12288, 0, 0, 0>>, -55)>>,  \* 41.27, 1.5
    <<"2 1/8", Num(1, <<13816, 5242, 14417, 15072>>, -50), Num(1, <<10240, 0, 0, 0>>, -55)>>,  \* 53.97, 1.25
    <<"2 1/8", Num(1, <<13816, 5242, 14417, 15072>>, -50), Num(1, <<14745, 9830, 6553, 9832>>, -55)>>,  \* 53.97, 1.8
    <<"2 5/8", Num(1, <<8533, 12451, 13762, 9176>>, -49), Num(1, <<13516, 13107, 3276, 13104>>, -55)>>,  \* 66.67, 1.65
    <<"2 5/8", Num(1, <<8533, 12451, 13762, 9176>>, -49), Num(1, <<8314, 14417, 15073, 4584>>, -54)>>,  \* 66.67, 2.03
    <<"3 1/8", Num(1, <<10159, 5898, 3932, 2624>>, -49), Num(1, <<13516, 13107, 3276, 13104>>, -55)>>,  \* 79.37, 1.65
    <<"3 5/8", Num(1, <<11786, 3932, 2621, 7208>>, -49), Num(1, <<8642, 9175, 655, 5896>>, -54)>>,  \* 92.08, 2.11
    <<"4 1/8", Num(1, <<13411, 13762, 9175, 656>>, -49), Num(1, <<10240, 0, 0, 0>>, -54)>> >>  \* 104.78, 2.5

\* The callback of RAW_TUBES.map, from od_in and wall_in on
MakeTube_id(raw, od_in, wall_in) ==
    [nominal |-> raw[1], od_in |-> od_in,
     id_in |-> FSub(od_in, FMul(K2, wall_in)), wall_mm |-> raw[3]]

\* The callback of RAW_TUBES.map
MakeTube(raw) == MakeTube_id(raw, mmToIn(raw[2]), mmToIn(raw[3]))

\* The comparator of the sort: a.od_in - b.od_in
CompareTubes(a, b) == FSub(a.od_in, b.od_in)

\* Array.prototype.sort is stable: x goes after every element that does not
\* compare greater than it.
RECURSIVE InsertSorted(_, _)
InsertSorted(s, x) ==
    IF s = <<>> THEN <<x>>
    ELSE IF FGt(CompareTubes(s[Len(s)], x), K0)
         THEN Append(InsertSorted(SubSeq(s, 1, Len(s) - 1), x), s[Len(s)])
         ELSE Append(s, x)

RECURSIVE SortTubes(_)
SortTubes(s) ==
    IF s = <<>> THEN <<>>
    ELSE InsertSorted(SortTubes(SubSeq(s, 1, Len(s) - 1)), s[Len(s)])

COPPER_TUBES == SortTubes([i \in 1..Len(RAW_TUBES) |-> MakeTube(RAW_TUBES[i])])


----------------------------------------------------------------------------
(* Funciones de calculo.  A function that can throw yields Return(v) or    *)
(* Throw(msg); a caller passes a Throw on unchanged.                       *)

Return(v) == [threw |-> FALSE, msg |-> "", value |-> v]
Throw(msg) == [threw |-> TRUE, msg |-> msg, value |-> NaN]

btuhToBtus(capacityBtuh) == FDiv(capacityBtuh, K3600)

\* getRefrigerant after the table read
getRefrigerant_ref(code, r) ==
    IF ~r.found
    THEN Throw("Refrigerante no soportado: " \o code)
    ELSE Return(r.ref)

getRefrigerant(code) == getRefrigerant_ref(code, REFRIGERANTS(code))

selectDensity_ref(ref, lineType) ==
    IF ref.threw THEN ref
    ELSE Return(IF lineType = "liquido"
                THEN ref.value.rho_liquido_lbft3
                ELSE ref.value.rho_vapor_lbft3)

selectDensity(refCode, lineType) == selectDensity_ref(getRefrigerant(refCode), lineType)

selectEffect_ref(ref) ==
    IF ref.threw THEN ref ELSE Return(ref.value.efecto_frigorifico_btulb)

selectEffect(refCode) == selectEffect_ref(getRefrigerant(refCode))

selectViscosity_ref(ref) ==
    IF ref.threw THEN ref ELSE Return(ref.value.mu_vapor_lbfts)

selectViscosity(refCode) == selectViscosity_ref(getRefrigerant(refCode))

frictionFactor(Re) ==
    IF FLe(Re, K0) THEN K0
    ELSE IF FLt(Re, K2300) THEN FDiv(K64, Re)
    ELSE FMul(K0_3164, FPowNegQuarter(Re))

dpToDT(lineType, dpPsi) ==
    FMul(dpPsi, IF lineType = "succion" THEN K1 ELSE K0_5)

\* computeMassFlow after qBtus and the effect lookup
computeMassFlow_efecto(qBtus, efecto) ==
    IF efecto.threw THEN efecto
    ELSE IF FLe(efecto.value, K0)
         THEN Throw("Efecto frigorífico no válido.")
         ELSE Return(FDiv(qBtus, efecto.value))

\* Faulty variant: the operands of the last division are swapped.
computeMassFlow_swapped(capacityBtuh, refCode) ==
    IF selectEffect(refCode).threw THEN selectEffect(refCode)
    ELSE Return(FDiv(selectEffect(refCode).value, btuhToBtus(capacityBtuh)))

computeMassFlow(capacityBtuh, refCode) ==
    computeMassFlow_efecto(btuhToBtus(capacityBtuh), selectEffect(refCode))

\* velMs = (velFtMin / 60.0) * 0.3048
VelMs(velFtMin) == FMul(FDiv(velFtMin, K60), K0_3048)

\* Faulty variant: the length enters the formula without the 0.01 floor.
EffectiveLength_noFloor(lengthEq) == lengthEq

\* const L = Math.max(input.lengthEq, 0.01)
EffectiveLength(lengthEq) == FMax(lengthEq, K0_01)

WarnVerticalLow == "Velocidad en tramo vertical menor a 8 m/s: posible problema de retorno de aceite."
WarnVerticalHigh == "Velocidad en tramo vertical mayor a 12 m/s: posible ruido y alta caída de presión."
WarnHorizontalLow == "Velocidad en tramo horizontal menor a 4 m/s: retorno de aceite insuficiente."
WarnLiquidHigh == "Velocidad en línea de líquido mayor a 300 ft/min: aumenta la caída de presión y riesgo de flasheo."

\* The "Advertencias" block of computeForTube, after velMs
Warnings_velMs(lineType, heightVert, velFtMin, velMs) ==
    IF lineType = "succion" \/ lineType = "descarga"
    THEN IF FGt(heightVert, K0)
         THEN IF FLt(velMs, K8) THEN <<WarnVerticalLow>>
              ELSE IF FGt(velMs, K12) THEN <<WarnVerticalHigh>>
              ELSE <<>>
         ELSE IF FLt(velMs, K4) THEN <<WarnHorizontalLow>> ELSE <<>>
    ELSE IF lineType = "liquido"
         THEN IF FGt(velFtMin, K300) THEN <<WarnLiquidHigh>> ELSE <<>>
         ELSE <<>>

\* Faulty variant: the horizontal branch warns below 8 m/s, like the vertical one.
Warnings_horizontal8(lineType, heightVert, velFtMin) ==
    IF lineType = "succion" \/ lineType = "descarga"
    THEN IF FGt(heightVert, K0)
         THEN IF FLt(VelMs(velFtMin), K8) THEN <<WarnVerticalLow>>
              ELSE IF FGt(VelMs(velFtMin), K12) THEN <<WarnVerticalHigh>>
              ELSE <<>>
         ELSE IF FLt(VelMs(velFtMin), K8) THEN <<WarnHorizontalLow>> ELSE <<>>
    ELSE IF lineType = "liquido"
         THEN IF FGt(velFtMin, K300) THEN <<WarnLiquidHigh>> ELSE <<>>
         ELSE <<>>

\* The "Advertencias" block of computeForTube
Warnings(lineType, heightVert, velFtMin) ==
    Warnings_velMs(lineType, heightVert, velFtMin, VelMs(velFtMin))

\* computeForTube, last part: dTF and the record returned
computeForTube_result(in, tube, velFtMin, Re, dpPsi) ==
    Return([tube |-> tube,
            velocityFtMin |-> velFtMin,
            deltaPPsi |-> dpPsi,
            deltaTF |-> dpToDT(in.lineType, dpPsi),
            Re |-> Re,
            warnings |-> Warnings(in.lineType, in.heightVert, velFtMin)])

\* dpLbfFt2 = f * (L / diameterFt) * (rho * velFps * velFps) / (2.0 * GC)
dpLbfFt2(f, L, diameterFt, rho, velFps) ==
    FDiv(FMul(FMul(f, FDiv(L, diameterFt)), FMul(FMul(rho, velFps), velFps)),
         FMul(K2, GC))

\* computeForTube, from Re on: f, L, dpLbfFt2, dpPsi
computeForTube_pressure(in, tube, rho, diameterFt, velFps, Re) ==
    computeForTube_result(in, tube, FMul(velFps, K60), Re,
        FDiv(dpLbfFt2(frictionFactor(Re), EffectiveLength(in.lengthEq),
                      diameterFt, rho, velFps),
             K144))

\* computeForTube, from velFps on: velFtMin and Re
computeForTube_reynolds(in, tube, rho, mu, diameterFt, velFps) ==
    computeForTube_pressure(in, tube, rho, diameterFt, velFps,
        IF FGt(mu, K0)
        THEN FDiv(FMul(FMul(rho, velFps), diameterFt), mu)
        ELSE K0)

\* computeForTube, from areaFt2 on: velFps
computeForTube_velocity(in, tube, rho, mu, mDot, diameterFt, areaFt2) ==
    computeForTube_reynolds(in, tube, rho, mu, diameterFt,
        IF FGt(areaFt2, K0)
        THEN FDiv(FDiv(mDot, rho), areaFt2)
        ELSE K0)

\* computeForTube, from diameterFt on: areaFt2 = Math.PI * Math.pow(diameterFt, 2) / 4.0
computeForTube_area(in, tube, rho, mu, mDot, diameterFt) ==
    computeForTube_velocity(in, tube, rho, mu, mDot, diameterFt,
        FDiv(FMul(PI, FMul(diameterFt, diameterFt)), K4))

\* computeForTube, after the three lookups, each of which can throw
computeForTube_lookups(in, tube, rhoR, muR, mDotR) ==
    IF rhoR.threw THEN rhoR
    ELSE IF muR.threw THEN muR
    ELSE IF mDotR.threw THEN mDotR
    ELSE computeForTube_area(in, tube, rhoR.value, muR.value, mDotR.value,
                             FDiv(tube.id_in, K12))

computeForTube(in, tube) ==
    computeForTube_lookups(in, tube,
        selectDensity(in.refrigerant, in.lineType),
        selectViscosity(in.refrigerant),
        computeMassFlow(in.capacity, in.refrigerant))

\* okDeltaT of the selection loop
OkDeltaT(in, res) ==
    FLe(res.deltaTF, IF in.lineType = "liquido" THEN K1 ELSE K2)

\* okVel of the selection loop, after velMs
OkVel_velMs(in, res, velMs) ==
    IF in.lineType = "succion" \/ in.lineType = "descarga"
    THEN IF FGt(in.heightVert, K0)
         THEN FGe(velMs, K8) /\ FLe(velMs, K12)
         ELSE FGe(velMs, K4)
    ELSE IF in.lineType = "liquido"
         THEN FLe(res.velocityFtMin, K300)
         ELSE TRUE

\* Faulty variant: the vertical band starts at the horizontal minimum, 4 m/s.
OkVel_band4to12(in, res) ==
    IF in.lineType = "succion" \/ in.lineType = "descarga"
    THEN IF FGt(in.heightVert, K0)
         THEN FGe(VelMs(res.velocityFtMin), K4)
              /\ FLe(VelMs(res.velocityFtMin), K12)
         ELSE FGe(VelMs(res.velocityFtMin), K4)
    ELSE IF in.lineType = "liquido"
         THEN FLe(res.velocityFtMin, K300)
         ELSE TRUE

\* okVel of the selection loop
OkVel(in, res) == OkVel_velMs(in, res, VelMs(res.velocityFtMin))

\* for (const res of results) { ... if (okDeltaT && okVel) { selected = res; break; } }
\* from position i on: the index of the entry selected, 0 for null.
RECURSIVE ScanFrom(_, _, _)
ScanFrom(in, results, i) ==
    IF i > Len(results) THEN 0
    ELSE IF OkDeltaT(in, results[i]) /\ OkVel(in, results[i]) THEN i
    ELSE ScanFrom(in, results, i + 1)

\* Faulty variant: the loop has no break, so the last acceptable entry wins.
RECURSIVE ScanLast(_, _, _)
ScanLast(in, results, i) ==
    IF i < 1 THEN 0
    ELSE IF OkDeltaT(in, results[i]) /\ OkVel(in, results[i]) THEN i
    ELSE ScanLast(in, results, i - 1)

SelectFirst_noBreak(in, results) == ScanLast(in, results, Len(results))

SelectFirst(in, results) == ScanFrom(in, results, 1)

\* Faulty variant: the map misses the last catalog tube.
MapTubes_dropLast(in) ==
    SubSeq([i \in 1..Len(COPPER_TUBES) |-> computeForTube(in, COPPER_TUBES[i])],
           1, Len(COPPER_TUBES) - 1)

\* COPPER_TUBES.map(tube => computeForTube(input, tube)): the array of the
\* evaluations, each a value or a Throw, in catalog order.
MapTubes(in) ==
    SubSeq([i \in 1..Len(COPPER_TUBES) |-> computeForTube(in, COPPER_TUBES[i])],
           1, Len(COPPER_TUBES))

\* sizeLine after the map, no evaluation having thrown: the results with the
\* selection.  selected is a reference to an element of results: its index,
\* 0 for null.
sizeLine_results(in, results) ==
    Return([results |-> results, selected |-> SelectFirst(in, results)])

\* sizeLine after the map: the first Throw of the evaluations, or the
\* results with the selection.
sizeLine_select(in, evals) ==
    IF \E i \in 1..Len(evals) : evals[i].threw
    THEN evals[CHOOSE i \in 1..Len(evals) :
                 evals[i].threw /\ \A j \in 1..(i - 1) : ~evals[j].threw]
    ELSE sizeLine_results(in, [i \in 1..Len(evals) |-> evals[i].value])

sizeLine(in) == sizeLine_select(in, MapTubes(in))

----------------------------------------------------------------------------
(* The calculation engine as a state machine: a caller holds a SizingInput *)
(* and calls sizeLine once.                                                *)

\* The capacities 6000, 12000, ... Btu/h: how many times 6000 is doubled.
MaxCapDoublings == 2

\* Magnitudes between which no intermediate value of computeForTube overflows
\* or underflows (1e100 and 1e-100), and a magnitude beyond on either side:
\* 1e308, and a subnormal Number near 1e-318.
Large == Num(1, <<9363, 5778, 12952, 7144>>, 277)  \* 1e100
Small == Num(1, <<14334, 6002, 4544, 10624>>, -388)  \* 1e-100
Huge == Num(1, <<9113, 14786, 15737, 1280>>, 968)  \* 1e308
Tiny == Num(1, <<0, 0, 98, 13584>>, -1077)  \* 1e-318

\* 378.4809238298712, the capacity at which the vapour of R134a flows through
\* the smallest tube at 8 m/s, to the last bit.
At8 == Num(1, <<12111, 6382, 9714, 5368>>, -47)

\* 567.7213857448066 and 567.7213857448068, neighbours among the doubles: at
\* the first the same vapour flows through the smallest tube at
\* 11.999999999999998 m/s, at the second at 12.000000000000002 m/s.  These
\* are the two doubles next to 12, and no velocityFtMin gives 12 itself:
\* (velocityFtMin / 60.0) * 0.3048 steps over it.
Below12 == Num(1, <<9083, 8882, 15477, 12208>>, -46)
Above12 == Num(1, <<9083, 8882, 15477, 12216>>, -46)

Capacities ==
    {Dec(-6000, 0), K0, Tiny, Small, At8, Large, Huge}
        \cup {Dec(6000 * (2 ^ n), 0) : n \in 0..MaxCapDoublings}

SizingInput(refrigerant, lineType, lengthEq, heightVert, capacity) ==
    [refrigerant |-> refrigerant, lineType |-> lineType,
     evapTemp |-> Dec(-10, 0), condTemp |-> Dec(40, 0), liquidTemp |-> Dec(35, 0),
     lengthEq |-> lengthEq, heightVert |-> heightVert, capacity |-> capacity]

\* The refrigerants are two codes of the table, a name every object inherits
\* and an unknown code; the line types are the four of the form.
Inputs ==
    {SizingInput(r, lt, len, h, c) :
        r \in {"R134a", "R22", "constructor", "R999"},
        lt \in {"liquido", "succion", "descarga", "otro"},
        len \in {Dec(-100, 0), K0, Dec(100, 0), Large},
        h \in {K0, Dec(10, 0)},
        c \in Capacities \cup {Below12, Above12}}

\* The page is taken up after a click on btn-limpiar, whose listener leaves
\* the errors panel and both cards hidden whatever they were before.
NoOutput == [results |-> <<>>, selected |-> 0]
PanelHidden == [hidden |-> TRUE, text |-> ""]
TableHidden == [hidden |-> TRUE, rows |-> <<>>]
CardHidden == [hidden |-> TRUE, contenido |-> [kind |-> "", warnings |-> <<>>]]

Init ==
    /\ pc = "call"
    /\ input \in Inputs
    /\ out = NoOutput
    /\ err = ""
    /\ errors = PanelHidden
    /\ resultados = TableHidden
    /\ seleccion = CardHidden

\* const { results, selected } = sizeLine(input), or the Error it throws
CallSizeLine ==
    /\ pc = "call"
    /\ \E r \in {sizeLine(input)} :
           IF r.threw
           THEN /\ pc' = "threw"
                /\ err' = r.msg
                /\ out' = out
           ELSE /\ pc' = "returned"
                /\ err' = err
                /\ out' = r.value
    /\ UNCHANGED <<input, errors, resultados, seleccion>>

Next == CallSizeLine

Spec == Init /\ [][Next]_vars

\* The same caller with only the capacity, the refrigerant and the line type
\* varied: the inputs that mass flow, velocity and Reynolds number depend on.
\* Next to the capacities above there are two that are neighbours of 6000
\* among the doubles, 6000 + 2 * 2^-40 and 6000 + 3 * 2^-40.
K6000 == Dec(6000, 0)
CapacitiesOfPair ==
    Capacities \cup {FAdd(K6000, Scale2(FromInt(k), -40)) : k \in 2..3}

CapacityInputs ==
    {SizingInput(r, lt, Dec(50, 0), K0, c) :
        r \in OwnCodes, lt \in {"liquido", "succion"}, c \in CapacitiesOfPair}

InitCapacity ==
    /\ pc = "call"
    /\ input \in CapacityInputs
    /\ out = NoOutput
    /\ err = ""
    /\ errors = PanelHidden
    /\ resultados = TableHidden
    /\ seleccion = CardHidden

SpecCapacity == InitCapacity /\ [][Next]_vars


----------------------------------------------------------------------------
(* Manejo de la interfaz: the submit and btn-limpiar listeners.  A form     *)
(* field holds what parseFloat made of its text: a number or NaN.  The text *)
(* of the table cells (formatNumber) is not part of the state.  The first   *)
(* state is the one a click on btn-limpiar leaves.                          *)

mostrarErrores(msg) ==
    IF msg = "" THEN [hidden |-> TRUE, text |-> ""]
    ELSE [hidden |-> FALSE, text |-> msg]

\* One <tr> per evaluation, with class row-selected on the selected tube.
renderResultados(results, selected) ==
    [hidden |-> FALSE,
     rows |-> [i \in 1..Len(results) |->
                 [nominal |-> results[i].tube.nominal,
                  rowSelected |->
                     /\ selected # 0
                     /\ results[i].tube.nominal = results[selected].tube.nominal
                     /\ FLt(FAbs(FSub(results[i].tube.id_in,
                                      results[selected].tube.id_in)),
                            K1e_6)]]]

renderSeleccion(results, selected, lineType) ==
    IF selected = 0
    THEN [hidden |-> FALSE,
          contenido |-> [kind |-> "ninguno", warnings |-> <<>>]]
    ELSE [hidden |-> FALSE,
          contenido |-> [kind |-> "seleccionada",
                         warnings |-> results[selected].warnings]]

ValidationMessage == "Todos los campos deben tener un valor numérico válido."

NoInput == SizingInput("", "", NaN, NaN, NaN)

Fields ==
    {SizingInput(r, "succion", Dec(50, 0), h, c) :
        r \in {"R134a", "R999"}, h \in {K0, Dec(10, 0)},
        c \in {NaN, K6000, Dec(60000, 0)}}

InitUI ==
    /\ pc = "ui"
    /\ input = NoInput
    /\ out = NoOutput
    /\ err = ""
    /\ errors = PanelHidden
    /\ resultados = TableHidden
    /\ seleccion = CardHidden

\* form.addEventListener("submit", ...)
Submit(f) ==
    /\ pc = "ui"
    /\ IF \/ IsNaN(f.evapTemp) \/ IsNaN(f.condTemp) \/ IsNaN(f.liquidTemp)
          \/ IsNaN(f.lengthEq) \/ IsNaN(f.heightVert) \/ IsNaN(f.capacity)
       THEN /\ err' = ValidationMessage
            /\ errors' = mostrarErrores(ValidationMessage)
            /\ UNCHANGED <<input, out, resultados, seleccion>>
       ELSE \E r \in {sizeLine(f)} :
                IF r.threw
                THEN /\ input' = f
                     /\ err' = r.msg
                     /\ errors' = mostrarErrores(r.msg)
                     /\ UNCHANGED <<out, resultados, seleccion>>
                ELSE /\ input' = f
                     /\ out' = r.value
                     /\ err' = ""
                     /\ errors' = mostrarErrores("")
                     /\ resultados' = renderResultados(r.value.results, r.value.selected)
                     /\ seleccion' = renderSeleccion(r.value.results, r.value.selected,
                                                     f.lineType)
    /\ pc' = pc

\* btnLimpiar.addEventListener("click", ...)
Limpiar ==
    /\ pc = "ui"
    /\ errors' = mostrarErrores("")
    /\ resultados' = [hidden |-> TRUE, rows |-> <<>>]
    /\ seleccion' = [hidden |-> TRUE, contenido |-> [kind |-> "", warnings |-> <<>>]]
    /\ UNCHANGED <<pc, input, out, err>>

NextUI == (\E f \in Fields : Submit(f)) \/ Limpiar

SpecUI == InitUI /\ [][NextUI]_vars


----------------------------------------------------------------------------
(* The literals: each constant written out above is the double nearest to   *)
(* its decimal literal, that is, what one correctly rounded division of two *)
(* exact integers gives.                                                    *)

LiteralsNearest ==
    /\ <<K0, K1, K2, K4, K8, K12, K60, K64, K144, K300, K2300, K3600>>
          = <<Dec(0, 0), Dec(1, 0), Dec(2, 0), Dec(4, 0), Dec(8, 0), Dec(12, 0),
              Dec(60, 0), Dec(64, 0), Dec(144, 0), Dec(300, 0), Dec(2300, 0),
              Dec(3600, 0)>>
    /\ <<K0_01, K0_5, K0_3048, K0_3164, K25_4, K1e_6, GC>>
          = <<Dec(1, -2), Dec(5, -1), Dec(3048, -4), Dec(3164, -4), Dec(254, -1),
              Dec(1, -6), Dec(32174, -3)>>
    /\ REFRIGERANTS_R134a
          = Refrigerant("R134a", Dec(30, -2), Dec(750, -1), Dec(25, -6), Dec(700, -1))
    /\ REFRIGERANTS_R22
          = Refrigerant("R22", Dec(35, -2), Dec(660, -1), Dec(25, -6), Dec(850, -1))
    /\ REFRIGERANTS_R410A
          = Refrigerant("R410A", Dec(40, -2), Dec(640, -1), Dec(23, -6), Dec(750, -1))
    /\ REFRIGERANTS_R12
          = Refrigerant("R12", Dec(28, -2), Dec(800, -1), Dec(26, -6), Dec(650, -1))
    /\ [i \in 1..Len(RAW_TUBES) |-> <<RAW_TUBES[i][2], RAW_TUBES[i][3]>>]
          = <<
              <<Dec(635, -2), Dec(8, -1)>>,
              <<Dec(952, -2), Dec(8, -1)>>,
              <<Dec(127, -1), Dec(8, -1)>>,
              <<Dec(1587, -2), Dec(8, -1)>>,
              <<Dec(1587, -2), Dec(10, -1)>>,
              <<Dec(1906, -2), Dec(10, -1)>>,
              <<Dec(2222, -2), Dec(10, -1)>>,
              <<Dec(2222, -2), Dec(114, -2)>>,
              <<Dec(254, -1), Dec(10, -1)>>,
              <<Dec(2857, -2), Dec(10, -1)>>,
              <<Dec(2857, -2), Dec(125, -2)>>,
              <<Dec(3492, -2), Dec(125, -2)>>,
              <<Dec(3492, -2), Dec(14, -1)>>,
              <<Dec(4127, -2), Dec(125, -2)>>,
              <<Dec(4127, -2), Dec(15, -1)>>,
              <<Dec(5397, -2), Dec(125, -2)>>,
              <<Dec(5397, -2), Dec(18, -1)>>,
              <<Dec(6667, -2), Dec(165, -2)>>,
              <<Dec(6667, -2), Dec(203, -2)>>,
              <<Dec(7937, -2), Dec(165, -2)>>,
              <<Dec(9208, -2), Dec(211, -2)>>,
              <<Dec(10478, -2), Dec(25, -1)>> >>

----------------------------------------------------------------------------
(* Properties *)

Returned == pc = "returned"
Supported == input.refrigerant \in OwnCodes
Riser == input.lineType \in {"succion", "descarga"} /\ FGt(input.heightVert, K0)
Selected == out.results[out.selected]

\* The temperature-loss limit of the line type: 1.0 for "liquido", 2.0 otherwise.
Limit(in) == IF in.lineType = "liquido" THEN K1 ELSE K2

\* The velocity band of the line type, on the velocities an evaluation reports.
InBandOf(in, velFtMin, velMs) ==
    IF in.lineType \in {"succion", "descarga"}
    THEN IF FGt(in.heightVert, K0)
         THEN FGe(velMs, K8) /\ FLe(velMs, K12)
         ELSE FGe(velMs, K4)
    ELSE IF in.lineType = "liquido"
         THEN FLe(velFtMin, K300)
         ELSE TRUE

InBand(in, res) == InBandOf(in, res.velocityFtMin, VelMs(res.velocityFtMin))

\* Both acceptance criteria.
Meets(in, res) == FLe(res.deltaTF, Limit(in)) /\ InBand(in, res)

\* A Number that is neither NaN nor an Infinity.
Finite(a) == a.k = "num"

\* C1: the catalog is ordered non-decreasing by inner diameter: for adjacent
\* positions i and i+1, id_in[i] <= id_in[i+1].  The catalog is built once
\* at load, so this is stated for every state of a caller of sizeLine, and
\* for the tubes of the result list once sizeLine has returned.
C1_CatalogSortedByInnerDiameter ==
    /\ pc \in {"call", "returned", "threw"} =>
          \A i \in 1..(Len(COPPER_TUBES) - 1) :
              FLe(COPPER_TUBES[i].id_in, COPPER_TUBES[i + 1].id_in)
    /\ Returned =>
          \A i \in 1..(Len(out.results) - 1) :
              FLe(out.results[i].tube.id_in, out.results[i + 1].tube.id_in)

\* C2: when sizeLine returns a selected entry, no catalog tube with a strictly
\* smaller inner diameter than the selected one satisfies both criteria.
C2_SelectedHasSmallestInnerDiameter ==
    (Returned /\ out.selected # 0) =>
        \A j \in 1..Len(out.results) :
            Meets(input, out.results[j]) =>
                ~FLt(out.results[j].tube.id_in, Selected.tube.id_in)

\* C3: sizeLine is first-fit over the result list: a selected entry meets both
\* criteria and no entry at an earlier index does; when no entry meets both,
\* selected is null and sizeLine has returned the full list.
C3_FirstFit ==
    Returned =>
        /\ out.selected \in 0..Len(out.results)
        /\ out.selected # 0 =>
              /\ Meets(input, Selected)
              /\ \A j \in 1..(out.selected - 1) : ~Meets(input, out.results[j])
        /\ (\A j \in 1..Len(out.results) : ~Meets(input, out.results[j])) =>
              /\ out.selected = 0
              /\ Len(out.results) = Len(COPPER_TUBES)

\* C3 witness: an entry after the first is selected, earlier entries having
\* been rejected, and a later entry meets both criteria too.
C3_Witness ==
    /\ Returned
    /\ out.selected > 1
    /\ \E j \in (out.selected + 1)..Len(out.results) : Meets(input, out.results[j])

\* C4: for a supported refrigerant code sizeLine returns, and the result list
\* has one evaluation per catalog tube (22), the i-th for the i-th tube,
\* whether or not a tube is selected.
C4_OneEvaluationPerTube ==
    (pc # "call" /\ Supported) =>
        /\ Returned
        /\ Len(out.results) = 22
        /\ Len(out.results) = Len(COPPER_TUBES)
        /\ \A i \in 1..Len(COPPER_TUBES) : out.results[i].tube = COPPER_TUBES[i]

\* C4 witness: a supported code, and the scan stopped in the middle of the list.
C4_Witness ==
    /\ Returned
    /\ Supported
    /\ out.selected \in 2..(Len(COPPER_TUBES) - 1)

\* C5: a refrigerant code that is not one of the four table entries makes
\* getRefrigerant fail with the unsupported-refrigerant error, and sizeLine is
\* aborted by that error with no result list or selection; each of the four
\* supported codes is found and has a refrigerating effect > 0.
C5_UnsupportedRefrigerantFails ==
    /\ \A code \in OwnCodes :
          /\ ~getRefrigerant(code).threw
          /\ FGt(selectEffect(code).value, K0)
    /\ (pc # "call" /\ ~Supported) =>
          /\ getRefrigerant(input.refrigerant).threw
          /\ pc = "threw"
          /\ err = "Refrigerante no soportado: " \o input.refrigerant
          /\ out = NoOutput

\* C6: on a suction or discharge line with a vertical rise, the velocity band
\* is [8, 12] m/s inclusive: the selected entry lies in it; an entry with
\* temperature loss within the limit and velocity in [8, 12] is accepted, so
\* that the selection is at or before it; and the velocity test of the
\* selection passes at exactly 8 and at exactly 12 m/s.
C6_RiserBand ==
    (Returned /\ Riser) =>
        /\ out.selected # 0 =>
              /\ FGe(VelMs(Selected.velocityFtMin), K8)
              /\ FLe(VelMs(Selected.velocityFtMin), K12)
        /\ \A i \in 1..Len(out.results) :
              /\ ( /\ FLe(out.results[i].deltaTF, K2)
                    /\ FGe(VelMs(out.results[i].velocityFtMin), K8)
                    /\ FLe(VelMs(out.results[i].velocityFtMin), K12) )
                  => (out.selected # 0 /\ out.selected <= i)
              /\ OkVel_velMs(input, out.results[i], K8)
              /\ OkVel_velMs(input, out.results[i], K12)

\* C6 witness: a riser where the selected entry is at exactly 8 m/s and an
\* entry after it passes the temperature limit below 8 m/s; and the same riser
\* at the two capacities next to the upper end: the smallest tube is selected
\* at the last velocity below 12 m/s, and passed over, with its temperature
\* loss within the limit, at the first velocity above.
C6_Witness ==
    /\ Returned
    /\ Riser
    /\ out.selected # 0
    /\ VelMs(Selected.velocityFtMin) = K8
    /\ \E i \in (out.selected + 1)..Len(out.results) :
          /\ FLe(out.results[i].deltaTF, K2)
          /\ FLt(VelMs(out.results[i].velocityFtMin), K8)
    /\ \E below \in {sizeLine([input EXCEPT !.capacity = Below12]).value} :
          /\ below.selected = 1
          /\ FLt(VelMs(below.results[1].velocityFtMin), K12)
    /\ \E above \in {sizeLine([input EXCEPT !.capacity = Above12]).value} :
          /\ above.selected # 1
          /\ FLe(above.results[1].deltaTF, K2)
          /\ FGt(VelMs(above.results[1].velocityFtMin), K12)

\* The evaluations are those of equivalentLength 0.01 when the
\* equivalentLength is below 0.01.
Floored ==
    FLt(input.lengthEq, K0_01) =>
        \A i \in 1..Len(out.results) :
            out.results[i] =
                computeForTube([input EXCEPT !.lengthEq = K0_01],
                               COPPER_TUBES[i]).value

\* C7 as stated: an equivalentLength below 0.01 is replaced by 0.01 before the
\* pressure-drop formula, and for every numeric input, of any sign, every
\* deltaPPsi and deltaTF is >= 0.
C7_AnyNumericInput ==
    (Returned /\ Supported) =>
        /\ \A i \in 1..Len(out.results) :
              /\ FGe(out.results[i].deltaPPsi, K0)
              /\ FGe(out.results[i].deltaTF, K0)
        /\ Floored

\* Magnitudes for which no intermediate product or quotient of
\* computeForTube leaves the range of a Number: a capacity that is 0 or has
\* 1e-100 <= |capacity| <= 1e100, and an equivalentLength <= 1e100.
InRange(c) == IsZero(c) \/ (FGe(FAbs(c), Small) /\ FLe(FAbs(c), Large))
Moderate(in) == InRange(in.capacity) /\ FLe(in.lengthEq, Large)

\* C7: an equivalentLength below 0.01 is replaced by 0.01 before the
\* pressure-drop formula, so the evaluations are those of length 0.01; and
\* for a refrigerant of the property table, every equivalentLength <= 1e100
\* of any sign and every capacity of any sign that is 0 or of magnitude
\* between 1e-100 and 1e100, every deltaPPsi and deltaTF is a finite number
\* >= 0 (no division by zero).
C7_LengthFloored ==
    Returned =>
        /\ (Supported /\ Moderate(input)) =>
              \A i \in 1..Len(out.results) :
                  /\ Finite(out.results[i].deltaPPsi)
                  /\ Finite(out.results[i].deltaTF)
                  /\ Finite(out.results[i].velocityFtMin)
                  /\ Finite(out.results[i].Re)
                  /\ FGe(out.results[i].deltaPPsi, K0)
                  /\ FGe(out.results[i].deltaTF, K0)
        /\ Floored

\* C7 witness: a negative equivalentLength with a positive capacity, and a
\* pressure drop that is strictly positive.
C7_Witness ==
    /\ Returned
    /\ Supported
    /\ Moderate(input)
    /\ FLt(input.lengthEq, K0)
    /\ FGt(input.capacity, K0)
    /\ \E i \in 1..Len(out.results) : FGt(out.results[i].deltaPPsi, K0)

\* The evaluations of the input with capacity c2 in place of its own.
EvalsAt(c2) == MapTubes([input EXCEPT !.capacity = c2])

\* velocityFtMin and Re of every tube are strictly larger in evals2 ...
StrictlyLarger(results, evals2) ==
    \A i \in 1..Len(COPPER_TUBES) :
        /\ FLt(results[i].velocityFtMin, evals2[i].value.velocityFtMin)
        /\ FLt(results[i].Re, evals2[i].value.Re)

\* ... and not smaller.
NotSmaller(results, evals2) ==
    \A i \in 1..Len(COPPER_TUBES) :
        /\ FLe(results[i].velocityFtMin, evals2[i].value.velocityFtMin)
        /\ FLe(results[i].Re, evals2[i].value.Re)

\* C8 as stated: with refrigerant, line type, lengths and tube fixed, for any
\* two capacities c1 < c2 the mass flow, velocityFtMin and Re are strictly
\* larger for c2.
C8_StrictForAnyPair ==
    (Returned /\ Supported) =>
        \A c2 \in CapacitiesOfPair :
            FLt(input.capacity, c2) =>
                /\ FLt(computeMassFlow(input.capacity, input.refrigerant).value,
                       computeMassFlow(c2, input.refrigerant).value)
                /\ StrictlyLarger(out.results, EvalsAt(c2))

\* Two capacities c1 < c2 that differ by more than rounding can absorb, at
\* least one part in 10^9 of the larger magnitude.
Apart == Dec(1, -9)
FarApart(c1, c2) ==
    FGe(FSub(c2, c1), FMul(Apart, FMax(FAbs(c1), FAbs(c2))))

\* For c1 < c2 with mass flows m1 and m2: nothing is smaller for c2, and
\* everything is strictly larger when the capacities are in range and apart.
MonotoneAt(c1, c2, m1, m2, results, evals2) ==
    /\ FLe(m1, m2)
    /\ NotSmaller(results, evals2)
    /\ (InRange(c1) /\ InRange(c2) /\ FarApart(c1, c2)) =>
          /\ FLt(m1, m2)
          /\ StrictlyLarger(results, evals2)

\* C8: with refrigerant, line type, lengths and tube fixed, for any two
\* capacities c1 < c2 the mass flow, velocityFtMin and Re for c2 are never
\* smaller than for c1; they are strictly larger when both capacities are 0
\* or of magnitude between 1e-100 and 1e100 and differ by at least one part
\* in 10^9.
C8_MonotoneInCapacity ==
    (Returned /\ Supported) =>
        \A c2 \in CapacitiesOfPair :
            FLt(input.capacity, c2) =>
                MonotoneAt(input.capacity, c2,
                           computeMassFlow(input.capacity, input.refrigerant).value,
                           computeMassFlow(c2, input.refrigerant).value,
                           out.results, EvalsAt(c2))

\* C8 witness: a positive capacity that has a far larger one to compare with,
\* and a neighbour among the doubles, too.
C8_Witness ==
    /\ Returned
    /\ Supported
    /\ FGt(input.capacity, K0)
    /\ \E c2 \in CapacitiesOfPair :
          /\ FLt(input.capacity, c2)
          /\ InRange(c2)
          /\ FarApart(input.capacity, c2)
    /\ \E c2 \in CapacitiesOfPair :
          /\ FLt(input.capacity, c2)
          /\ ~FarApart(input.capacity, c2)
    /\ FGt(out.results[1].Re, K0)

\* C9: whenever an error message is shown in the errors panel, the results
\* table card and the selection card are hidden.
C9_ErrorHidesResults ==
    ~errors.hidden => (resultados.hidden /\ seleccion.hidden)

\* C10: the selected entry, when present, has an empty warnings list; an
\* evaluation that carries a warning never passes the velocity test of the
\* selection, and an evaluation whose velocity is not NaN passes it exactly
\* when it carries no warning.
C10_SelectedHasNoWarnings ==
    Returned =>
        /\ out.selected # 0 => Selected.warnings = <<>>
        /\ \A i \in 1..Len(out.results) :
              /\ InBand(input, out.results[i]) => out.results[i].warnings = <<>>
              /\ ~IsNaN(out.results[i].velocityFtMin) =>
                    (out.results[i].warnings = <<>> => InBand(input, out.results[i]))

\* C10 witness: an entry is selected on a horizontal suction line while other
\* entries of the same list carry a warning.
C10_Witness ==
    /\ Returned
    /\ input.lineType = "succion"
    /\ ~Riser
    /\ out.selected # 0
    /\ FLt(VelMs(Selected.velocityFtMin), K8)
    /\ \E i \in 1..Len(out.results) : out.results[i].warnings # <<>>


====
